---- MODULE Spec2Model ----
(***************************************************************************)
(* arena-dl: the ArenaDownloader of src/index.js as a state machine.       *)
(*                                                                         *)
(* One ArenaDownloader instance is driven by the CLI handler: a single     *)
(* download() call, or, in watch mode, a first awaited download() and then *)
(* one more download() call on the same instance per timer tick.  Node    *)
(* runs the callbacks one at a time, so every action below is the code     *)
(* that runs between two suspension points (await of a request, of a       *)
(* timer, of make-dir, of Promise.all).  The remote service, the timers    *)
(* and the file system are the environment: which response arrives next    *)
(* and whether it is a success is chosen nondeterministically.             *)
(***************************************************************************)
EXTENDS Integers, Sequences, FiniteSets, TLC

\* ------------------------------------------------------------ constants
PER_PAGE == 100
CONCURRENT_DOWNLOADS == 5

\* ------------------------------------------------------------ bounds
\* blocks of the channel of a single invocation (more than one chunk)
MaxBlocks == 6
\* blocks of the channels used to exercise pagination
PageBlocks == 3
\* blocks of the channel watched in watch mode
WatchBlocks == 2
\* download() calls made on the instance in watch mode
MaxRuns == 3
\* failures the environment injects in one behaviour
MaxFailures == 1
\* failures the environment injects in a behaviour in which failures of
\* pages and of jobs are mixed
MixFailures == MaxFailures + 2

VARIABLES
    skipExisting,      \* this.skipExisting
    dryRun,            \* this.dryRun
    exportFormat,      \* this.exportFormat: "json", "csv", "csv,json" for the
                       \* array of a repeated --format, "none" when not given
    watch,             \* argv.watch given
    remote,            \* the channel as the remote service serves it
    stats,             \* this.stats
    failedBlocks,      \* this.failedBlocks
    downloadedBlocks,  \* this.downloadedBlocks
    files,             \* the file at each block's target path
    dirCreated,        \* the channel directory exists
    logFile,           \* lines of the failure log, << >> when never written
    manifest,          \* the export file: << >> when absent, else << its content >>
    runs,              \* the download() calls: position and locals of each
    started,           \* number of download() calls made so far
    status,            \* the process: "running", "exit0", "exit1", "killed"
    failures           \* failures the environment may still inject

vars == << skipExisting, dryRun, exportFormat, watch, remote, stats,
           failedBlocks, downloadedBlocks, files, dirCreated, logFile, manifest,
           runs, started, status, failures >>

Min(a, b) == IF a < b THEN a ELSE b

\* the environment may still inject a failure
MayFail == failures > 0

\* ------------------------------------------------------------ environment
\* the least number of pages of size `per` that hold `n` items
PagesNeeded(n, per) == CHOOSE p \in 0..n : p * per >= n /\ (p = 0 \/ (p - 1) * per < n)

\* n blocks, numbered 1..n in listing order, served on P pages
Split(n, P) ==
    [p \in 1..P |->
        [k \in 1..(((p * n) \div P) - (((p - 1) * n) \div P)) |->
            (((p - 1) * n) \div P) + k]]

\* a channel whose summary reports len items, of which the listing shows the
\* blocks 1..n (n <= len), those in noimg without an image; the blocks have
\* no title and their images are JPEGs
Remote(len, n, noimg) ==
    [length |-> len,
     contents |-> Split(n, PagesNeeded(len, PER_PAGE)),
     images |-> (1..n) \ noimg,
     titles |-> [b \in 1..n |-> << >>],
     types |-> [b \in 1..n |-> "image/jpeg"]]

RECURSIVE Flatten(_)
Flatten(ss) == IF ss = << >> THEN << >> ELSE Head(ss) \o Flatten(Tail(ss))

Listing == Flatten(remote.contents)
Blocks == {Listing[k] : k \in 1..Len(Listing)}

JobStates == {"PENDING", "FETCHING", "DELAY", "DOWNLOADED", "SKIPPED", "FAILED", "NOIMAGE"}
Settled == {"DOWNLOADED", "SKIPPED", "FAILED", "NOIMAGE"}

\* ------------------------------------------------------------ file names
\* strings are sequences of one-character strings
DigitChars == << "0", "1", "2", "3", "4", "5", "6", "7", "8", "9" >>

\* block.id.toString()
RECURSIVE Digits(_)
Digits(n) ==
    IF n < 10 THEN << DigitChars[n + 1] >>
    ELSE Digits(n \div 10) \o << DigitChars[(n % 10) + 1] >>

ToLower(ch) == IF ch = "A" THEN "a" ELSE IF ch = "B" THEN "b" ELSE ch

Alphanumeric == {"a", "b"} \cup {DigitChars[k] : k \in 1..10}

\* runs of "-" become one "-"
RECURSIVE Collapse(_)
Collapse(t) ==
    IF Len(t) < 2 THEN t
    ELSE IF t[1] = "-" /\ t[2] = "-" THEN Collapse(Tail(t))
    ELSE << t[1] >> \o Collapse(Tail(t))

\* a "-" at either end is dropped
Trim(t) ==
    LET lo == IF Len(t) > 0 /\ t[1] = "-" THEN 2 ELSE 1
        hi == IF Len(t) >= lo /\ t[Len(t)] = "-" THEN Len(t) - 1 ELSE Len(t)
    IN  SubSeq(t, lo, hi)

\* parameterize(title): lower case, every run of characters that are not
\* letters or digits replaced by one "-", none at the ends
parameterize(title) ==
    Trim(Collapse([k \in 1..Len(title) |->
                      IF ToLower(title[k]) \in Alphanumeric
                      THEN ToLower(title[k]) ELSE "-"]))

\* mime.getExtension(type), << >> for null
getExtension(type) ==
    IF type = "image/jpeg" THEN << "j", "p", "e", "g" >>
    ELSE IF type = "image/png" THEN << "p", "n", "g" >>
    ELSE IF type = "image/gif" THEN << "g", "i", "f" >>
    ELSE << >>

\* a file name made from the title alone
getFilenameTitleOnly(block) ==
    LET title == IF block.title # << >> THEN parameterize(block.title)
                 ELSE Digits(block.id)
        ext == IF getExtension(block.content_type) # << >>
               THEN getExtension(block.content_type) ELSE << "j", "p", "g" >>
    IN  title \o << "." >> \o ext

\* getFilename(block)
getFilename(block) ==
    LET title == IF block.title # << >> THEN parameterize(block.title)
                 ELSE Digits(block.id)
        ext == IF getExtension(block.content_type) # << >>
               THEN getExtension(block.content_type) ELSE << "j", "p", "g" >>
    IN  Digits(block.id) \o << "_" >> \o title \o << "." >> \o ext

\* ------------------------------------------------------------ constructor
NewStats == [total |-> 0, downloaded |-> 0, skipped |-> 0, failed |-> 0, noImage |-> 0]

\* the locals of a download() call and a record of what it did: the pages it
\* lost, the response each image request got, the summary it printed and the
\* contents it wrote to the failure log and to the export file
NewRun == [pc |-> "idle", page |-> 0, allBlocks |-> << >>, imageBlocks |-> << >>,
           i |-> 0, job |-> << >>, pageLog |-> << >>, progress |-> << >>,
           summary |-> << >>, lostPages |-> {}, resp |-> << >>,
           wrote |-> << >>, exported |-> << >>]

\* ------------------------------------------------------------ helpers
\* the instance state and the locals of run r that a callback of r may change
Cur(r) == [run |-> runs[r], stats |-> stats, failedBlocks |-> failedBlocks,
           downloadedBlocks |-> downloadedBlocks, logFile |-> logFile,
           manifest |-> manifest, dirCreated |-> dirCreated, status |-> status]

Commit(r, c) ==
    /\ runs' = [runs EXCEPT ![r] = c.run]
    /\ stats' = c.stats
    /\ failedBlocks' = c.failedBlocks
    /\ downloadedBlocks' = c.downloadedBlocks
    /\ logFile' = c.logFile
    /\ manifest' = c.manifest
    /\ dirCreated' = c.dirCreated
    /\ status' = c.status

\* this.stats.<field>++
Incr(s, field) == [s EXCEPT ![field] = @ + 1]

\* logFailure(blockId, title, error)
logFailure(c, blockId, error) ==
    [c EXCEPT !.failedBlocks = Append(@, [blockId |-> blockId, error |-> error])]

\* `${b.blockId} - ${b.title}: ${b.error}`
LogLine(f) == << f.blockId, f.error >>

\* writefailedLog(): one line per entry of failedBlocks, overwriting the file
writefailedLog(c) ==
    LET logContent == [k \in 1..Len(c.failedBlocks) |-> LogLine(c.failedBlocks[k])]
    IN  IF Len(c.failedBlocks) > 0
        THEN [c EXCEPT !.logFile = logContent, !.run.wrote = << logContent >>]
        ELSE c

\* what is left of a line of the log that was not written to its end
BrokenLine == << -1, "UNPARSED" >>

\* the failure log after a writeFileSync that stopped part-way: the first k
\* lines, and the beginning of the next one unless the write stopped at the
\* end of a line
TruncatedLogs(failed) ==
    LET logContent == [k \in 1..Len(failed) |-> LogLine(failed[k])]
    IN  UNION {{SubSeq(logContent, 1, k), SubSeq(logContent, 1, k) \o << BrokenLine >>} :
                  k \in 0..(Len(failed) - 1)}

\* exportList: the entry of one block
ManifestRow(b) == [id |-> b]

\* the export file after a writeFileSync that stopped part-way, k rows
\* written to their end: a CSV file keeps those rows, a JSON file that lacks
\* its end cannot be read
TruncatedExport(downloaded, k) ==
    [format |-> exportFormat,
     rows |-> IF exportFormat = "json" THEN "BROKEN"
              ELSE [i \in 1..k |-> ManifestRow(downloaded[i])]]

\* exportList: the formats for which a file is written (=== 'json',
\* === 'csv')
WrittenFormats == {"json", "csv"}

\* exportList(): nothing without a format; else the directory is made if it
\* is missing, and the file is written from this.downloadedBlocks when the
\* format is 'json' or 'csv'; for any other value no file is written
exportList(c) ==
    LET data == [format |-> exportFormat,
                 rows |-> [k \in 1..Len(c.downloadedBlocks) |->
                              ManifestRow(c.downloadedBlocks[k])]]
    IN  IF exportFormat = "none" THEN c
        ELSE IF exportFormat \in WrittenFormats
        THEN [c EXCEPT !.dirCreated = TRUE, !.manifest = << data >>,
                       !.run.exported = << data >>]
        ELSE [c EXCEPT !.dirCreated = TRUE]

\* a page count that is one too many for a multiple of PER_PAGE
TotalPagesFloorPlusOne(totalBlocks) == (totalBlocks \div PER_PAGE) + 1

\* Math.ceil(totalBlocks / PER_PAGE)
TotalPages(totalBlocks) ==
    IF totalBlocks % PER_PAGE = 0
    THEN totalBlocks \div PER_PAGE
    ELSE (totalBlocks \div PER_PAGE) + 1

\* fetchAllBlocks: `if (page < totalPages)` before the inter-page delay
DelayAfter(page, totalPages) == page < totalPages

\* what the remote serves for GET contents?page=p
PageContents(p) ==
    IF p \in 1..Len(remote.contents) THEN remote.contents[p] ELSE << >>

\* fs.existsSync(filepath) && fs.statSync(filepath).size > 0
ExistsNonEmpty(f) == f # "absent" /\ f # "empty"

\* a skip test that does not look at this.skipExisting
ShouldSkipForced(b) == ExistsNonEmpty(files[b])

\* downloadBlock: path.join(channelDir, this.getFilename(block)), within
\* channelDir
TargetPath(b) ==
    getFilename([id |-> b, title |-> remote.titles[b], content_type |-> remote.types[b]])

\* downloadBlock: the skip-existing test
ShouldSkip(b) == skipExisting /\ ExistsNonEmpty(files[b])

\* a slice one block longer than the limit
SliceEndOneMore(i, n) == Min(i + CONCURRENT_DOWNLOADS + 1, n)

\* downloadInChunks: last position of blocks.slice(i, i + CONCURRENT_DOWNLOADS)
SliceEnd(i, n) == Min(i + CONCURRENT_DOWNLOADS, n)

\* the positions of the chunk the run is at
Chunk(run) == (run.i + 1)..SliceEnd(run.i, Len(run.imageBlocks))

\* a join that waits for every job of the run, started or not
ChunkSettledWholeList(run) == \A j \in 1..Len(run.job) : run.job[j] \in Settled

\* the first promise of the chunk has resolved (Promise.race)
ChunkSettledAny(run) == \E j \in Chunk(run) : run.job[j] \in Settled

\* Promise.all(promises) of the chunk has resolved
ChunkSettled(run) == \A j \in Chunk(run) : run.job[j] \in Settled

\* ------------------------------------------------------------ download()
\* download(): the summary, which prints the counters
summarise(c) == [c EXCEPT !.run.summary = << c.stats >>]

\* download(), from the summary to its return: the failure log, the export,
\* and in a single invocation the end of the process
finish(c) ==
    LET c0 == summarise(c)
        c1 == IF c0.stats.failed > 0 THEN writefailedLog(c0) ELSE c0
        c2 == exportList(c1)
    IN  [c2 EXCEPT !.run.pc = "done",
                   !.status = IF watch THEN c.status ELSE "exit0"]

\* download(), from the summary to a writeFileSync of writefailedLog that
\* threw, leaving the log as `log`: the catch block calls process.exit(1)
finishLogFailed(c, log) ==
    [summarise(c) EXCEPT !.logFile = log, !.status = "exit1"]

\* download(), from the summary to a mkdirSync or writeFileSync of exportList
\* that threw, leaving the directory as `dir` and the export file as `file`:
\* the catch block calls process.exit(1)
finishExportFailed(c, dir, file) ==
    LET c0 == summarise(c)
        c1 == IF c0.stats.failed > 0 THEN writefailedLog(c0) ELSE c0
    IN  [c1 EXCEPT !.dirCreated = dir, !.manifest = file, !.status = "exit1"]

\* a skip-existing branch that returns without counting the job
downloadBlockSkipUncounted(c, b, j) ==
    IF b \notin remote.images
    THEN [c EXCEPT !.stats = Incr(@, "noImage"), !.run.job[j] = "NOIMAGE"]
    ELSE IF ShouldSkip(b)
    THEN [c EXCEPT !.run.job[j] = "SKIPPED"]
    ELSE IF dryRun
    THEN [c EXCEPT !.stats = Incr(@, "downloaded"),
                   !.downloadedBlocks = Append(@, b),
                   !.run.job[j] = "DOWNLOADED"]
    ELSE [c EXCEPT !.run.job[j] = "FETCHING"]

\* downloadBlock(block), from its call to its first await (or its return)
downloadBlock(c, b, j) ==
    IF b \notin remote.images
    THEN [c EXCEPT !.stats = Incr(@, "noImage"), !.run.job[j] = "NOIMAGE"]
    ELSE IF ShouldSkip(b)
    THEN [c EXCEPT !.stats = Incr(@, "skipped"), !.run.job[j] = "SKIPPED"]
    ELSE IF dryRun
    THEN [c EXCEPT !.stats = Incr(@, "downloaded"),
                   !.downloadedBlocks = Append(@, b),
                   !.run.job[j] = "DOWNLOADED"]
    ELSE [c EXCEPT !.run.job[j] = "FETCHING"]

\* a catch block that records the failure and issues the request again
downloadFailedRetry(c, b, j, error) ==
    [logFailure([c EXCEPT !.stats = Incr(@, "failed")], b, error)
        EXCEPT !.run.job[j] = "FETCHING"]

\* a catch block that rethrows: the error rejects Promise.all and reaches the
\* catch block of download()
downloadFailedFatal(c, b, j, error) ==
    [logFailure([c EXCEPT !.stats = Incr(@, "failed")], b, error)
        EXCEPT !.run.job[j] = "FAILED", !.status = "exit1"]

\* a catch block reached after the download was already counted
downloadFailedAfterCount(c, b, j, error) ==
    [logFailure([c EXCEPT !.stats = Incr(Incr(@, "downloaded"), "failed")], b, error)
        EXCEPT !.run.job[j] = "FAILED"]

\* downloadBlock, the catch block
downloadFailed(c, b, j, error) ==
    [logFailure([c EXCEPT !.stats = Incr(@, "failed")], b, error)
        EXCEPT !.run.job[j] = "FAILED"]

\* a success path that counts the download and does not record the block
downloadWrittenNoPush(c, b, j) ==
    [c EXCEPT !.stats = Incr(@, "downloaded"),
              !.run.job[j] = "DELAY"]

\* downloadBlock, after a non-empty body was written to the target path
downloadWritten(c, b, j) ==
    [c EXCEPT !.stats = Incr(@, "downloaded"),
              !.downloadedBlocks = Append(@, b),
              !.run.job[j] = "DELAY"]

\* chunk.map(block => this.downloadBlock(block, channelDir))
RECURSIVE startChunk(_, _, _)
startChunk(c, lo, hi) ==
    IF lo > hi THEN c
    ELSE startChunk(downloadBlock(c, c.run.imageBlocks[lo], lo), lo + 1, hi)

\* downloadInChunks: the loop test and the start of the next chunk
chunkLoop(c) ==
    IF c.run.i < Len(c.run.imageBlocks)
    THEN [startChunk(c, c.run.i + 1, SliceEnd(c.run.i, Len(c.run.imageBlocks)))
            EXCEPT !.run.pc = "chunk"]
    ELSE [c EXCEPT !.run.pc = "summary"]

\* download(): blocks.filter(b => b.image), then downloadInChunks
afterFetchAll(c) ==
    LET imageBlocks == SelectSeq(c.run.allBlocks, LAMBDA b : b \in remote.images)
    IN  chunkLoop([c EXCEPT !.run.imageBlocks = imageBlocks,
                            !.run.job = [j \in 1..Len(imageBlocks) |-> "PENDING"],
                            !.run.resp = [j \in 1..Len(imageBlocks) |-> "none"],
                            !.run.i = 0])

\* fetchAllBlocks: the loop test and the request for the next page
requestPage(c, page) ==
    IF page <= TotalPages(remote.length)
    THEN [c EXCEPT !.run.page = page, !.run.pc = "page",
                   !.run.pageLog = Append(@, << "request", page >>)]
    ELSE afterFetchAll(c)

\* a loop that takes a page without blocks for the end of the listing
pageArrivedStopOnEmpty(c, blocks) ==
    LET page == c.run.page
        c1 == [c EXCEPT !.run.allBlocks = @ \o blocks,
                        !.run.pageLog = Append(@, << "response", page >>)]
    IN  IF blocks = << >> THEN afterFetchAll(c1)
        ELSE IF DelayAfter(page, TotalPages(remote.length))
        THEN [c1 EXCEPT !.run.pc = "pageDelay",
                        !.run.pageLog = Append(@, << "delay", page >>)]
        ELSE requestPage(c1, page + 1)

\* fetchAllBlocks: the blocks of the awaited page have arrived
pageArrived(c, blocks) ==
    LET page == c.run.page
        c1 == [c EXCEPT !.run.allBlocks = @ \o blocks,
                        !.run.pageLog = Append(@, << "response", page >>)]
    IN  IF DelayAfter(page, TotalPages(remote.length))
        THEN [c1 EXCEPT !.run.pc = "pageDelay",
                        !.run.pageLog = Append(@, << "delay", page >>)]
        ELSE requestPage(c1, page + 1)

\* ------------------------------------------------------------ actions
Config == << skipExisting, dryRun, exportFormat, watch, remote >>

\* CLI handler: the first downloader.download()
Start ==
    /\ status = "running" /\ started = 0
    /\ started' = 1
    /\ runs' = [runs EXCEPT ![1].pc = "info"]
    /\ UNCHANGED << Config, stats, failedBlocks, downloadedBlocks, files,
                    dirCreated, logFile, manifest, status, failures >>

\* watch mode: the setInterval callback calls downloader.download() again
WatchTick ==
    /\ status = "running" /\ watch
    /\ started >= 1 /\ started < MaxRuns
    /\ runs[1].pc = "done"
    /\ started' = started + 1
    /\ runs' = [runs EXCEPT ![started + 1].pc = "info"]
    /\ UNCHANGED << Config, stats, failedBlocks, downloadedBlocks, files,
                    dirCreated, logFile, manifest, status, failures >>

\* fetchChannelInfo resolved
ChannelInfoOk(r) ==
    /\ status = "running" /\ runs[r].pc = "info"
    /\ LET c == [Cur(r) EXCEPT !.stats.total = remote.length]
       IN  IF dryRun
           THEN Commit(r, requestPage(c, 1))
           ELSE Commit(r, [c EXCEPT !.run.pc = "mkdir"])
    /\ UNCHANGED << Config, files, started, failures >>

\* a download() that makes the channel directory before it awaits the summary
ChannelInfoFailAfterMkdir(r) ==
    /\ status = "running" /\ runs[r].pc = "info"
    /\ MayFail
    /\ failures' = failures - 1
    /\ status' = "exit1"
    /\ dirCreated' = (dirCreated \/ ~dryRun)
    /\ UNCHANGED << Config, stats, failedBlocks, downloadedBlocks, files,
                    logFile, manifest, runs, started >>

\* fetchChannelInfo threw: download() catches it and calls process.exit(1)
ChannelInfoFail(r) ==
    /\ status = "running" /\ runs[r].pc = "info"
    /\ MayFail
    /\ failures' = failures - 1
    /\ status' = "exit1"
    /\ UNCHANGED << Config, stats, failedBlocks, downloadedBlocks, files,
                    dirCreated, logFile, manifest, runs, started >>

\* makeDir(channelDir) resolved
MakeDirOk(r) ==
    /\ status = "running" /\ runs[r].pc = "mkdir"
    /\ Commit(r, requestPage([Cur(r) EXCEPT !.dirCreated = TRUE], 1))
    /\ UNCHANGED << Config, files, started, failures >>

\* makeDir(channelDir) rejected: download() catches it and calls process.exit(1)
MakeDirFail(r) ==
    /\ status = "running" /\ runs[r].pc = "mkdir"
    /\ status' = "exit1"
    /\ UNCHANGED << Config, stats, failedBlocks, downloadedBlocks, files,
                    dirCreated, logFile, manifest, runs, started, failures >>

\* fetchPage resolved with the page's contents
PageOk(r) ==
    /\ status = "running" /\ runs[r].pc = "page"
    /\ Commit(r, pageArrived(Cur(r), PageContents(runs[r].page)))
    /\ UNCHANGED << Config, files, started, failures >>

\* fetchPage caught an error and returned []
PageFail(r) ==
    /\ status = "running" /\ runs[r].pc = "page"
    /\ MayFail
    /\ failures' = failures - 1
    /\ Commit(r, pageArrived([Cur(r) EXCEPT !.run.lostPages = @ \cup {runs[r].page}],
                              << >>))
    /\ UNCHANGED << Config, files, started >>

\* the 100 ms timer between two pages fired
PageDelayDone(r) ==
    /\ status = "running" /\ runs[r].pc = "pageDelay"
    /\ Commit(r, requestPage(Cur(r), runs[r].page + 1))
    /\ UNCHANGED << Config, files, started, failures >>

\* the image request resolved with a non-empty body, which is written
ImageData(r, j) ==
    /\ status = "running" /\ runs[r].pc = "chunk"
    /\ j \in Chunk(runs[r]) /\ runs[r].job[j] = "FETCHING"
    /\ LET b == runs[r].imageBlocks[j]
       IN  /\ files' = [files EXCEPT ![b] = "full"]
           /\ Commit(r, downloadWritten([Cur(r) EXCEPT !.run.resp[j] = "data"], b, j))
    /\ UNCHANGED << Config, started, failures >>

\* the image request resolved with a non-empty body and writeFileSync threw:
\* before opening the file, after truncating it, or after writing a part of
\* the body (a full disk, a file-size limit)
ImageWriteFail(r, j) ==
    /\ status = "running" /\ runs[r].pc = "chunk"
    /\ j \in Chunk(runs[r]) /\ runs[r].job[j] = "FETCHING"
    /\ MayFail
    /\ failures' = failures - 1
    /\ LET b == runs[r].imageBlocks[j]
       IN  /\ \E f \in {files[b], "empty", "partial"} :
                  files' = [files EXCEPT ![b] = f]
           /\ Commit(r, downloadFailed([Cur(r) EXCEPT !.run.resp[j] = "data"], b, j,
                                       "write failed"))
    /\ UNCHANGED << Config, started >>

\* a downloadBlock without the test for an empty body: the body is written
\* and the job counted
ImageEmptyWritten(r, j) ==
    /\ status = "running" /\ runs[r].pc = "chunk"
    /\ j \in Chunk(runs[r]) /\ runs[r].job[j] = "FETCHING"
    /\ MayFail
    /\ failures' = failures - 1
    /\ LET b == runs[r].imageBlocks[j]
       IN  /\ files' = [files EXCEPT ![b] = "empty"]
           /\ Commit(r, downloadWritten([Cur(r) EXCEPT !.run.resp[j] = "empty"], b, j))
    /\ UNCHANGED << Config, started >>

\* the image request resolved with an empty body
ImageEmpty(r, j) ==
    /\ status = "running" /\ runs[r].pc = "chunk"
    /\ j \in Chunk(runs[r]) /\ runs[r].job[j] = "FETCHING"
    /\ MayFail
    /\ failures' = failures - 1
    /\ Commit(r, downloadFailed([Cur(r) EXCEPT !.run.resp[j] = "empty"],
                                runs[r].imageBlocks[j], j, "Received empty response"))
    /\ UNCHANGED << Config, files, started >>

\* the image request was rejected: network error, timeout or non-2xx status
ImageError(r, j) ==
    /\ status = "running" /\ runs[r].pc = "chunk"
    /\ j \in Chunk(runs[r]) /\ runs[r].job[j] = "FETCHING"
    /\ MayFail
    /\ failures' = failures - 1
    /\ Commit(r, downloadFailed([Cur(r) EXCEPT !.run.resp[j] = "error"],
                                runs[r].imageBlocks[j], j, "request failed"))
    /\ UNCHANGED << Config, files, started >>

\* the 200 ms timer after a written file fired: downloadBlock returns
DownloadDelayDone(r, j) ==
    /\ status = "running" /\ runs[r].pc = "chunk"
    /\ j \in Chunk(runs[r]) /\ runs[r].job[j] = "DELAY"
    /\ runs' = [runs EXCEPT ![r].job[j] = "DOWNLOADED"]
    /\ UNCHANGED << Config, stats, failedBlocks, downloadedBlocks, files,
                    dirCreated, logFile, manifest, started, status, failures >>

\* a progress line that shows where the chunk started, not where it ended
ChunkJoinReportsStart(r) ==
    /\ status = "running" /\ runs[r].pc = "chunk"
    /\ ChunkSettled(runs[r])
    /\ LET run == runs[r]
           line == [processed |-> run.i,
                    downloaded |-> stats.downloaded,
                    skipped |-> stats.skipped,
                    failed |-> stats.failed]
       IN  Commit(r, chunkLoop([Cur(r) EXCEPT !.run.progress = Append(@, line),
                                             !.run.i = @ + CONCURRENT_DOWNLOADS]))
    /\ UNCHANGED << Config, files, started, failures >>

\* Promise.all of the chunk resolved: progress line, then the next chunk or
\* the rest of download()
ChunkJoin(r) ==
    /\ status = "running" /\ runs[r].pc = "chunk"
    /\ ChunkSettled(runs[r])
    /\ LET run == runs[r]
           line == [processed |-> Min(run.i + CONCURRENT_DOWNLOADS, Len(run.imageBlocks)),
                    downloaded |-> stats.downloaded,
                    skipped |-> stats.skipped,
                    failed |-> stats.failed]
       IN  Commit(r, chunkLoop([Cur(r) EXCEPT !.run.progress = Append(@, line),
                                             !.run.i = @ + CONCURRENT_DOWNLOADS]))
    /\ UNCHANGED << Config, files, started, failures >>

\* downloadInChunks returned: the summary, the failure log if a download has
\* failed, the export if one was asked for
Summary(r) ==
    /\ status = "running" /\ runs[r].pc = "summary"
    /\ Commit(r, finish(Cur(r)))
    /\ UNCHANGED << Config, files, started, failures >>

\* as Summary, but the write of the failure log threw: before opening the
\* file, after truncating it, or after writing a part of the content
LogWriteFail(r) ==
    /\ status = "running" /\ runs[r].pc = "summary"
    /\ stats.failed > 0 /\ Len(failedBlocks) > 0
    /\ \E log \in {logFile} \cup TruncatedLogs(failedBlocks) :
           Commit(r, finishLogFailed(Cur(r), log))
    /\ UNCHANGED << Config, files, started, failures >>

\* as Summary, but exportList threw: making the directory, or writing the
\* file, before opening it, after truncating it, or after writing a part of
\* the content
ExportFail(r) ==
    /\ status = "running" /\ runs[r].pc = "summary"
    /\ exportFormat # "none"
    /\ \/ /\ ~dirCreated
          /\ Commit(r, finishExportFailed(Cur(r), FALSE, manifest))
       \/ /\ exportFormat \in WrittenFormats
          /\ \/ Commit(r, finishExportFailed(Cur(r), TRUE, manifest))
             \/ Commit(r, finishExportFailed(Cur(r), TRUE, << >>))
             \/ \E k \in 0..(IF Len(downloadedBlocks) = 0 THEN 0
                              ELSE Len(downloadedBlocks) - 1) :
                    Commit(r, finishExportFailed(Cur(r), TRUE,
                               << TruncatedExport(downloadedBlocks, k) >>))
    /\ UNCHANGED << Config, files, started, failures >>

\* the process is terminated from outside (a signal, a power loss) between
\* two callbacks, or inside one that has touched no file since it began
Kill ==
    /\ status = "running" /\ started >= 1
    /\ status' = "killed"
    /\ UNCHANGED << Config, stats, failedBlocks, downloadedBlocks, files,
                    dirCreated, logFile, manifest, runs, started, failures >>

\* the process is terminated while `await makeDir(channelDir)` is pending and
\* the directory has been made already
KillDuringMkdir(r) ==
    /\ status = "running" /\ runs[r].pc = "mkdir"
    /\ status' = "killed"
    /\ dirCreated' = TRUE
    /\ UNCHANGED << Config, stats, failedBlocks, downloadedBlocks, files,
                    logFile, manifest, runs, started, failures >>

\* the image request resolved with a non-empty body and the process is
\* terminated inside fs.writeFileSync(filepath, response.data), which has
\* truncated the file and written none or a part of the body, or after it
\* has returned and before the job is counted
KillDuringWrite(r, j) ==
    /\ status = "running" /\ runs[r].pc = "chunk"
    /\ j \in Chunk(runs[r]) /\ runs[r].job[j] = "FETCHING"
    /\ status' = "killed"
    /\ \E f \in {"partial", "empty", "full"} :
           files' = [files EXCEPT ![runs[r].imageBlocks[j]] = f]
    /\ UNCHANGED << Config, stats, failedBlocks, downloadedBlocks,
                    dirCreated, logFile, manifest, runs, started, failures >>

\* download(), from the summary on, terminated from outside: after the
\* summary was printed, inside or after the write of the failure log, or
\* inside or after exportList
KillDuringSummary(r) ==
    /\ status = "running" /\ runs[r].pc = "summary"
    /\ LET c0 == summarise(Cur(r))
           logged == c0.stats.failed > 0 /\ Len(c0.failedBlocks) > 0
           c1 == IF c0.stats.failed > 0 THEN writefailedLog(c0) ELSE c0
       IN  \/ Commit(r, [c0 EXCEPT !.status = "killed"])
           \/ /\ logged
              /\ \E log \in TruncatedLogs(c0.failedBlocks) :
                     Commit(r, [c0 EXCEPT !.logFile = log, !.status = "killed"])
           \/ /\ logged
              /\ Commit(r, [c1 EXCEPT !.status = "killed"])
           \/ /\ exportFormat # "none"
              /\ \/ Commit(r, [c1 EXCEPT !.dirCreated = TRUE, !.status = "killed"])
                 \/ Commit(r, [exportList(c1) EXCEPT !.status = "killed"])
           \/ /\ exportFormat \in WrittenFormats
              /\ \/ Commit(r, [c1 EXCEPT !.dirCreated = TRUE, !.manifest = << >>,
                                          !.status = "killed"])
                 \/ \E k \in 0..(IF Len(c1.downloadedBlocks) = 0 THEN 0
                                  ELSE Len(c1.downloadedBlocks) - 1) :
                        Commit(r, [c1 EXCEPT
                                       !.dirCreated = TRUE,
                                       !.manifest = << TruncatedExport(c1.downloadedBlocks, k) >>,
                                       !.status = "killed"])
    /\ UNCHANGED << Config, files, started, failures >>

\* the same command is invoked again after the process was terminated: a new
\* process and a new ArenaDownloader over the directory as it was left
Rerun ==
    /\ status = "killed"
    /\ status' = "running"
    /\ stats' = NewStats
    /\ failedBlocks' = << >>
    /\ downloadedBlocks' = << >>
    /\ runs' = [r \in DOMAIN runs |-> NewRun]
    /\ started' = 0
    /\ UNCHANGED << Config, files, dirCreated, logFile, manifest, failures >>

\* ------------------------------------------------------------ specifications
Runs == 1..MaxRuns
JobsOf(r) == 1..Len(runs[r].job)

\* item counts of the channels used to exercise pagination: 0 to 3 pages
PageLengths == {0, 1, PER_PAGE, PER_PAGE + 1, PER_PAGE + 50, 2 * PER_PAGE, 2 * PER_PAGE + 1}

\* a single invocation: one channel of more than one chunk of images, and
\* channels of 0 to 3 pages whose second block has no image
RunRemotes ==
    {Remote(MaxBlocks, MaxBlocks, {})}
    \cup {Remote(len, Min(len, PageBlocks), {2} \cap (1..Min(len, PageBlocks))) :
            len \in PageLengths}

\* watch mode: a small channel, all images or the first block without one,
\* or spread over two pages
WatchRemotes ==
    {Remote(WatchBlocks, WatchBlocks, noimg) : noimg \in {{}, {1}}}
    \cup {Remote(PER_PAGE + 1, WatchBlocks, {})}

\* titles: none, two that differ and parameterize alike, a digit, and one
\* with no letter or digit
TitleChoices ==
    << << >>, << "A", " ", "b" >>, << "a", "_", "_", "B" >>, << "1" >>, << ".", "-" >> >>

\* every block with the same title, or the titles in turn
Titlings(n) ==
    {[b \in 1..n |-> TitleChoices[k]] : k \in 1..Len(TitleChoices)}
    \cup {[b \in 1..n |-> TitleChoices[(b % Len(TitleChoices)) + 1]]}

\* every image a JPEG, or a PNG first and then a type mime does not know
Typings(n) ==
    {[b \in 1..n |-> "image/jpeg"],
     [b \in 1..n |-> IF b = 1 THEN "image/png" ELSE "application/x-unknown"]}

\* a channel of two pages, all images, with titles and image types
PathRemotes ==
    {[Remote(PER_PAGE + 1, PageBlocks, {}) EXCEPT !.titles = t, !.types = ty] :
        t \in Titlings(PageBlocks), ty \in Typings(PageBlocks)}

\* what earlier invocations left at the target paths: nothing, or a file for
\* the first block, complete or empty, or a complete file for the first block
\* and an empty one for the last
PreFiles(n) ==
    {[b \in 1..n |-> IF b = 1 THEN f ELSE "absent"] : f \in {"absent", "empty", "full"}}
    \cup {[b \in 1..n |-> IF b = 1 THEN "full" ELSE IF b = n THEN "empty" ELSE "absent"]}

\* an output directory that no invocation has written to
NoFiles(n) == {[b \in 1..n |-> "absent"]}

InitFrom(w, remotes, formats, budget) ==
    /\ watch = w
    /\ skipExisting \in BOOLEAN
    /\ dryRun \in BOOLEAN
    /\ exportFormat \in formats
    /\ remote \in remotes
    /\ files \in (IF w THEN NoFiles(Len(Flatten(remote.contents)))
                       ELSE PreFiles(Len(Flatten(remote.contents))))
    /\ dirCreated = (\E b \in DOMAIN files : files[b] # "absent")
    /\ stats = NewStats
    /\ failedBlocks = << >>
    /\ downloadedBlocks = << >>
    /\ logFile = << >>
    /\ manifest = << >>
    /\ runs = [r \in Runs |-> NewRun]
    /\ started = 0
    /\ status = "running"
    /\ failures = budget

InitWith(w, remotes, formats) == InitFrom(w, remotes, formats, MaxFailures)

\* --format json, --format csv, and --format given twice, which yargs
\* delivers as an array
Formats == WrittenFormats \cup {"csv,json"}

\* a single invocation without --format
Init == InitWith(FALSE, RunRemotes, {"none"})
\* a single invocation with --format: the channel of more than one chunk is
\* previewed with --dry-run, the others are previewed or downloaded
InitExport ==
    /\ InitWith(FALSE, RunRemotes, Formats)
    /\ Len(Listing) > PageBlocks => dryRun
InitWatch == InitWith(TRUE, WatchRemotes, {"none"} \cup Formats)
\* watch mode without --format on a channel of two pages
InitCycles ==
    /\ InitWith(TRUE, WatchRemotes, {"none"})
    /\ remote.length > PER_PAGE
\* a single invocation on a channel whose blocks have titles
InitPaths == InitWith(FALSE, PathRemotes, {"none"})
\* a single invocation on a small channel, into a directory that no
\* invocation has written to
InitKill ==
    /\ InitWith(FALSE, WatchRemotes, {"none"})
    /\ \A b \in DOMAIN files : files[b] = "absent"

Next ==
    \/ Start
    \/ \E r \in Runs : ChannelInfoOk(r)
    \/ \E r \in Runs : ChannelInfoFail(r)
    \/ \E r \in Runs : MakeDirOk(r)
    \/ \E r \in Runs : MakeDirFail(r)
    \/ \E r \in Runs : PageOk(r)
    \/ \E r \in Runs : PageFail(r)
    \/ \E r \in Runs : PageDelayDone(r)
    \/ \E r \in Runs : \E j \in JobsOf(r) : ImageData(r, j)
    \/ \E r \in Runs : \E j \in JobsOf(r) : ImageWriteFail(r, j)
    \/ \E r \in Runs : \E j \in JobsOf(r) : ImageEmpty(r, j)
    \/ \E r \in Runs : \E j \in JobsOf(r) : ImageError(r, j)
    \/ \E r \in Runs : \E j \in JobsOf(r) : DownloadDelayDone(r, j)
    \/ \E r \in Runs : ChunkJoin(r)
    \/ \E r \in Runs : Summary(r)
    \/ \E r \in Runs : LogWriteFail(r)

NextExport ==
    \/ Next
    \/ \E r \in Runs : ExportFail(r)

NextWatch ==
    \/ NextExport
    \/ WatchTick

NextKill ==
    \/ Next
    \/ Kill
    \/ \E r \in Runs : KillDuringMkdir(r)
    \/ \E r \in Runs : \E j \in JobsOf(r) : KillDuringWrite(r, j)
    \/ \E r \in Runs : KillDuringSummary(r)
    \/ Rerun

NextCycles ==
    \/ Next
    \/ WatchTick

\* a single invocation of the command
Spec == Init /\ [][Next]_vars
\* a single invocation on a channel whose blocks have titles
SpecPaths == InitPaths /\ [][Next]_vars
\* an invocation with --watch and without --format on a channel of two pages
SpecCycles == InitCycles /\ [][NextCycles]_vars
\* an invocation that may be terminated from outside, and the invocation of
\* the same command that follows
SpecKill == InitKill /\ [][NextKill]_vars
\* a single invocation of the command with --format
SpecExport == InitExport /\ [][NextExport]_vars
\* a single invocation that downloads into a directory where an earlier one
\* left the file of the first block
InitFair ==
    /\ Init
    /\ ~dryRun
    /\ \A b \in DOMAIN files : files[b] = (IF b = 1 THEN "full" ELSE "absent")

\* such an invocation, in which no request, timer or callback that is due
\* stays pending for ever: every request resolves or rejects (timeout 30 s)
SpecFair == InitFair /\ [][Next]_vars /\ WF_vars(Next)
\* a single invocation, a dry run or a download as in InitFair; on the
\* channels of 0 to 3 pages up to MixFailures requests or writes may fail, on
\* the channel of more than one chunk up to MaxFailures
InitTerm ==
    /\ \/ InitFrom(FALSE, RunRemotes, {"none"}, MixFailures) /\ Len(Listing) <= PageBlocks
       \/ InitFrom(FALSE, RunRemotes, {"none"}, MaxFailures) /\ Len(Listing) > PageBlocks
    /\ ~dryRun => \A b \in DOMAIN files : files[b] = (IF b = 1 THEN "full" ELSE "absent")

\* such an invocation in which every request and timer eventually settles
SpecTerm == InitTerm /\ [][Next]_vars /\ WF_vars(Next)
\* an invocation with --watch
SpecWatch == InitWatch /\ [][NextWatch]_vars

TypeOK ==
    /\ stats \in [total : Nat, downloaded : Nat, skipped : Nat, failed : Nat, noImage : Nat]
    /\ status \in {"running", "exit0", "exit1", "killed"}
    /\ exportFormat \in {"none"} \cup Formats
    /\ Len(manifest) <= 1
    /\ \A r \in Runs : \A j \in JobsOf(r) : runs[r].job[j] \in JobStates
    /\ \A b \in DOMAIN files : files[b] \in {"absent", "empty", "partial", "full"}

\* ------------------------------------------------------------ properties
JobState(r, j) == runs[r].job[j]
BlockOf(r, j) == runs[r].imageBlocks[j]

\* jobs of run r that have been started and have not settled
Unsettled(r) == {j \in JobsOf(r) : JobState(r, j) \in {"FETCHING", "DELAY"}}

\* C1: in every state, the jobs of a run of downloadInChunks that have been
\* started and have not yet settled number at most the concurrency limit
C1_BoundedConcurrency ==
    \A r \in Runs : Cardinality(Unsettled(r)) <= CONCURRENT_DOWNLOADS

\* a run over more jobs than the limit has a full chunk in flight
C1_Witness ==
    \E r \in Runs :
        /\ Len(runs[r].job) > CONCURRENT_DOWNLOADS
        /\ Cardinality(Unsettled(r)) = CONCURRENT_DOWNLOADS

\* the chunk (0, 1, ...) that position j of the job sequence falls in
ChunkOf(j) == (j - 1) \div CONCURRENT_DOWNLOADS

\* C2: no job of a later chunk is started before every job of each earlier
\* chunk has settled
C2_ChunksInSequence ==
    \A r \in Runs : \A j \in JobsOf(r) :
        JobState(r, j) # "PENDING" =>
            \A e \in JobsOf(r) : ChunkOf(e) < ChunkOf(j) => JobState(r, e) \in Settled

\* a job of the second chunk is in flight after a first chunk whose jobs
\* settled in different ways, a failure before a success
C2_Witness ==
    \E r \in Runs : \E j \in JobsOf(r) :
        /\ ChunkOf(j) = 1 /\ JobState(r, j) = "FETCHING"
        /\ \E e, f \in JobsOf(r) :
            /\ ChunkOf(e) = 0 /\ ChunkOf(f) = 0 /\ e < f
            /\ JobState(r, e) = "DOWNLOADED" /\ JobState(r, f) = "FAILED"
            /\ downloadedBlocks # << >> /\ failedBlocks # << >>

\* the download() calls that are between their call and their return
InProgress == {r \in Runs : runs[r].pc \notin {"idle", "done"}}

\* C3: at every moment at most one run of download() is in progress
C3_OneRunAtATime == Cardinality(InProgress) <= 1

\* jobs, of all download() calls, that are in one of the given states
JobsIn(S) == {<< r, j >> \in Runs \X (1..(MaxBlocks + PageBlocks + WatchBlocks)) :
                j \in JobsOf(r) /\ JobState(r, j) \in S}

\* C4: every executed job has incremented exactly one counter, exactly once,
\* and there is a FailureRecord for exactly the jobs counted as failed
C4_OneCounterPerJob ==
    /\ stats.downloaded = Cardinality(JobsIn({"DELAY", "DOWNLOADED"}))
    /\ stats.skipped = Cardinality(JobsIn({"SKIPPED"}))
    /\ stats.failed = Cardinality(JobsIn({"FAILED"}))
    /\ stats.noImage = Cardinality(JobsIn({"NOIMAGE"}))
    /\ Len(failedBlocks) = Cardinality(JobsIn({"FAILED"}))
    /\ {failedBlocks[k].blockId : k \in 1..Len(failedBlocks)}
         = {BlockOf(p[1], p[2]) : p \in JobsIn({"FAILED"})}

\* a finished run in which jobs were downloaded, skipped and failed
C4_Witness ==
    /\ runs[1].pc = "done"
    /\ JobsIn({"DOWNLOADED"}) # {} /\ JobsIn({"SKIPPED"}) # {} /\ JobsIn({"FAILED"}) # {}

\* C5: in every state downloaded + skipped + failed + noImage <= total
C5_CountersWithinTotal ==
    stats.downloaded + stats.skipped + stats.failed + stats.noImage <= stats.total

\* every page of the listing arrived in run r
AllPagesLoaded(r) == runs[r].allBlocks = Listing

\* C6: with skip-existing enabled and unchanged remote content, the second
\* of two runs that both loaded the whole listing, the first without a
\* failure, reports downloaded == 0 and skipped == the number of image
\* blocks of the first run
C6_SecondRunIdempotent ==
    ( /\ skipExisting /\ ~dryRun
      /\ runs[1].pc = "done" /\ runs[2].pc = "done"
      /\ AllPagesLoaded(1) /\ AllPagesLoaded(2)
      /\ runs[1].summary[1].failed = 0 )
    => /\ runs[2].summary[1].downloaded = 0
       /\ runs[2].summary[1].skipped = Len(runs[1].imageBlocks)

\* job j of run r has left PENDING
StartedJob(r, j) == j \in JobsOf(r) /\ JobState(r, j) # "PENDING"

\* a file with content is at the target path of block b
HasContent(b) == files[b] \notin {"absent", "empty"}

\* the step starts job j of run r
Starts(r, j) == ~StartedJob(r, j) /\ StartedJob(r, j)'

\* C7: in a re-run with skip-existing enabled a job that failed in an earlier
\* run is attempted again: it is SKIPPED only over a file that holds the
\* whole body
C7_FailedJobsRetried ==
    (skipExisting /\ ~dryRun) =>
        \A r, q \in Runs : \A j \in JobsOf(r) : \A e \in JobsOf(q) :
            ( /\ r < q /\ BlockOf(r, j) = BlockOf(q, e)
              /\ JobState(r, j) = "FAILED" /\ JobState(q, e) = "SKIPPED" )
            => files[BlockOf(q, e)] = "full"

\* the blocks without an image among those run r fetched
FetchedWithoutImage(r) ==
    {k \in 1..Len(runs[r].allBlocks) : runs[r].allBlocks[k] \notin remote.images}

\* C8: after a run, noImage equals the number of fetched blocks without an
\* image
C8_NoImageCounted ==
    runs[1].pc = "done" => stats.noImage = Cardinality(FetchedWithoutImage(1))

\* with force, a job that starts while a non-empty file is at its target
\* path goes to the download (the fetch, or its dry-run stand-in), and no
\* job is ever SKIPPED or ends other than DOWNLOADED or FAILED
ForceStep(r) ==
    \A j \in 1..Len(runs'[r].job) :
        /\ runs'[r].job[j] \in {"PENDING", "FETCHING", "DELAY", "DOWNLOADED", "FAILED"}
        /\ (Starts(r, j) /\ HasContent(runs'[r].imageBlocks[j])) =>
                runs'[r].job[j] = IF dryRun THEN "DOWNLOADED" ELSE "FETCHING"

\* C9: with force (skipExisting false), a job whose target path holds a
\* non-empty file is never SKIPPED: it is attempted and ends DOWNLOADED or
\* FAILED
C9_ForceNeverSkips ==
    [][~skipExisting => (stats'.skipped = 0 /\ \A r \in Runs : ForceStep(r))]_vars

\* with force, the job of a block whose file existed from the start was
\* fetched and failed, leaving the old file
C9_Witness ==
    /\ ~skipExisting /\ ~dryRun
    /\ \E j \in JobsOf(1) :
        /\ JobState(1, j) = "FAILED"
        /\ files[BlockOf(1, j)] = "full"
        /\ failedBlocks = << [blockId |-> BlockOf(1, j), error |-> "request failed"] >>

\* the requests, responses and delays of fetchAllBlocks over P pages
RECURSIVE ExpectedLog(_, _)
ExpectedLog(p, P) ==
    IF p > P THEN << >>
    ELSE << << "request", p >>, << "response", p >> >>
         \o (IF p < P THEN << << "delay", p >> >> ELSE << >>)
         \o ExpectedLog(p + 1, P)

IsPrefix(s, t) == Len(s) <= Len(t) /\ SubSeq(t, 1, Len(s)) = s

\* C10: fetchAllBlocks issues exactly ceil(totalCount / PER_PAGE) requests,
\* for pages 1, 2, ... in order, each after the response to the one before
\* and after a delay, with no delay after the last page
C10_PagesInSequence ==
    \A r \in Runs :
        LET expected == ExpectedLog(1, PagesNeeded(remote.length, PER_PAGE))
        IN  /\ IsPrefix(runs[r].pageLog, expected)
            /\ runs[r].pc \in {"chunk", "done"} => runs[r].pageLog = expected

\* a run has fetched three pages
C10_Witness ==
    \E r \in Runs :
        /\ runs[r].pc \in {"chunk", "done"}
        /\ Len(remote.contents) = 3
        /\ Len(runs[r].pageLog) = 8

\* the number of requests run r made for page p
Requests(r, p) ==
    Cardinality({k \in 1..Len(runs[r].pageLog) : runs[r].pageLog[k] = << "request", p >>})

\* the blocks of the pages that run r was served, in listing order
LoadedBlocks(r) ==
    Flatten([p \in 1..Len(remote.contents) |->
                IF p \in runs[r].lostPages THEN << >> ELSE remote.contents[p]])

\* run r has left fetchAllBlocks
PagesFetched(r) == runs[r].pc \in {"chunk", "summary", "done"}

\* C11: a page whose request failed is requested once and no more; when the
\* page loop has ended every page of the channel has been requested once, the
\* blocks collected are those of the pages that loaded and no others, and the
\* jobs are the image blocks among them; when the run is done all have settled
C11_FailedPageNotFatal ==
    \A r \in Runs :
        /\ \A p \in runs[r].lostPages : Requests(r, p) = 1
        /\ PagesFetched(r) =>
            /\ \A p \in 1..Len(remote.contents) : Requests(r, p) = 1
            /\ runs[r].allBlocks = LoadedBlocks(r)
            /\ runs[r].imageBlocks =
                    SelectSeq(LoadedBlocks(r), LAMBDA b : b \in remote.images)
            /\ Len(runs[r].job) = Len(runs[r].imageBlocks)
        /\ runs[r].pc = "done" =>
            \A j \in JobsOf(r) : runs[r].job[j] \in Settled

\* a run that lost the first of three pages is done, and has downloaded an
\* image of a later page
C11_Witness ==
    \E r \in Runs :
        /\ runs[r].pc = "done"
        /\ Len(remote.contents) = 3
        /\ runs[r].lostPages = {1}
        /\ remote.contents[1] # << >>
        /\ \E j \in JobsOf(r) : runs[r].job[j] = "DOWNLOADED"

\* the process ended because fetchChannelInfo of run r threw
SummaryFailed(r) == status = "exit1" /\ runs[r].pc = "info"

\* C12: when the fetch of the channel summary has failed the process has
\* ended, and the run has made no directory (one exists only if an earlier
\* invocation left files in it), requested no page, planned and executed no
\* job, and left every counter and list as the constructor set it
C12_SummaryFailureAborts ==
    \A r \in Runs :
        SummaryFailed(r) =>
            /\ ~ENABLED Next
            /\ dirCreated => \E b \in DOMAIN files : files[b] # "absent"
            /\ runs[r].pageLog = << >>
            /\ runs[r].job = << >> /\ runs[r].allBlocks = << >>
            /\ stats = NewStats
            /\ failedBlocks = << >> /\ downloadedBlocks = << >>
            /\ logFile = << >> /\ manifest = << >>

\* the summary of a channel with blocks could not be fetched, in an invocation
\* that would have made the directory and downloaded
C12_Witness ==
    /\ SummaryFailed(1)
    /\ ~dryRun /\ ~dirCreated
    /\ remote.length > 0

\* a job of run r has failed
HasFailedJob(r) == \E j \in JobsOf(r) : runs[r].job[j] = "FAILED"

\* run r has printed its summary with every one of its jobs settled
Summarised(r) ==
    /\ runs[r].summary # << >>
    /\ \A j \in JobsOf(r) : runs[r].job[j] \in Settled

\* a job of some run has failed and that run has not printed its summary
FailedJobPending == \E r \in Runs : HasFailedJob(r) /\ ~Summarised(r)

\* C13: once a job of a run has failed, whatever the error, the run still
\* comes to print its summary with every job of the run settled
C13_JobErrorNeverAborts == FailedJobPending ~> ~FailedJobPending

\* a run of more than one chunk has printed its summary after a job of the
\* first chunk failed; the other jobs of both chunks were downloaded
C13_Witness ==
    \E r \in Runs :
        /\ Summarised(r)
        /\ Len(runs[r].job) > CONCURRENT_DOWNLOADS
        /\ \E j \in JobsOf(r) :
            /\ j <= CONCURRENT_DOWNLOADS
            /\ runs[r].job[j] = "FAILED"
            /\ \A e \in JobsOf(r) \ {j} : runs[r].job[e] = "DOWNLOADED"

\* a run is at one of the awaits of channel setup: the channel summary, or
\* the making of the channel directory
InSetup(r) == runs[r].pc \in {"info", "mkdir"}

\* C14: the process has exited with a non-zero status only if channel setup
\* failed; no process whose run came to its summary, whether or not jobs
\* failed or the write of the failure log or of the export file failed, has
\* exited with a non-zero status
C14_NonZeroExitOnlyOnSetup ==
    status = "exit1" => \E r \in Runs : InSetup(r)

\* the jobs of run r that ended FAILED
FailedJobsOf(r) == {j \in JobsOf(r) : runs[r].job[j] = "FAILED"}

\* the lines are one per failed job of run r, each naming that job's block
LinesOfRun(lines, r) ==
    /\ Len(lines) = Cardinality(FailedJobsOf(r))
    /\ \A j \in FailedJobsOf(r) : \E k \in 1..Len(lines) : lines[k][1] = BlockOf(r, j)

\* C15: a run that is done has written the failure log if and only if jobs
\* of that run failed, and what it wrote is one line per failed job of that
\* run and nothing else
C15_LogOfThisRun ==
    \A r \in Runs :
        runs[r].pc = "done" =>
            /\ runs[r].wrote # << >> <=> FailedJobsOf(r) # {}
            /\ runs[r].wrote # << >> => LinesOfRun(runs[r].wrote[1], r)

\* the jobs of run r that the step counts as downloaded
NewlyDownloaded(r) ==
    {j \in 1..Len(runs'[r].job) :
        /\ runs'[r].job[j] = "DOWNLOADED"
        /\ (j \in JobsOf(r) => runs[r].job[j] = "PENDING")}

\* a step of a dry run requests no image and writes no image file, and each
\* job it passes that is not skipped adds one to downloaded and its block to
\* the export list
DryRunStep ==
    /\ files' = files
    /\ \A r \in Runs : \A j \in 1..Len(runs'[r].job) :
           /\ runs'[r].job[j] \in {"PENDING", "SKIPPED", "DOWNLOADED"}
           /\ runs'[r].resp[j] = "none"
    /\ \A r \in Runs :
           runs'[r] # runs[r] =>
               /\ stats'.downloaded = stats.downloaded + Cardinality(NewlyDownloaded(r))
               /\ Len(downloadedBlocks') = Len(downloadedBlocks) + Cardinality(NewlyDownloaded(r))
               /\ \A j \in NewlyDownloaded(r) :
                      \E k \in (Len(downloadedBlocks) + 1)..Len(downloadedBlocks') :
                          downloadedBlocks'[k] = runs'[r].imageBlocks[j]

\* run r has printed its summary over n image blocks, none of which had a
\* file, and the summary shows n downloaded and none failed
DryRunSummary(r) ==
    (/\ runs[r].summary # << >>
     /\ \A j \in JobsOf(r) : ~ExistsNonEmpty(files[BlockOf(r, j)]))
        => /\ runs[r].summary[1].downloaded = Len(runs[r].imageBlocks)
           /\ runs[r].summary[1].failed = 0

\* C16: in dry-run mode no step requests an image or writes an image file,
\* every job that is not skipped is counted as downloaded and recorded in the
\* export list, and a run over n image blocks none of which has a file ends
\* with downloaded = n and failed = 0
C16_DryRun ==
    [][dryRun => DryRunStep /\ \A r \in Runs : DryRunSummary(r)']_vars

\* the jobs of run r that ended DOWNLOADED
DownloadedJobsOf(r) == {j \in JobsOf(r) : runs[r].job[j] = "DOWNLOADED"}

\* the rows are one per downloaded job of run r, each naming that job's
\* block, and no others
RowsOfRun(rows, r) ==
    /\ Len(rows) = Cardinality(DownloadedJobsOf(r))
    /\ \A j \in DownloadedJobsOf(r) :
           Cardinality({k \in 1..Len(rows) : rows[k].id = BlockOf(r, j)}) = 1

\* C17: the export file a run has written when it is done lists the jobs of
\* that run that ended DOWNLOADED, each once, and nothing else
C17_ManifestOfThisRun ==
    \A r \in Runs :
        (runs[r].pc = "done" /\ runs[r].exported # << >>) =>
            RowsOfRun(runs[r].exported[1].rows, r)

\* the step counts job j of run r as downloaded
Counts(r, j) == runs[r].job[j] = "FETCHING" /\ runs'[r].job[j] = "DELAY"

\* the step settles job j of run r as DOWNLOADED
SettlesDownloaded(r, j) == runs[r].job[j] = "DELAY" /\ runs'[r].job[j] = "DOWNLOADED"

\* C18: outside dry-run, when a job is counted as downloaded and when it
\* settles as DOWNLOADED, the file at its target path exists and is not empty
C18_DownloadedHasFile ==
    [][~dryRun =>
        \A r \in Runs : \A j \in JobsOf(r) :
            (Counts(r, j) \/ SettlesDownloaded(r, j)) =>
                ExistsNonEmpty(files'[BlockOf(r, j)])]_vars

\* no block is planned twice by run r
PlannedOnce(r) ==
    \A j, e \in JobsOf(r) : BlockOf(r, j) = BlockOf(r, e) => j = e

\* a step leaves the planned jobs of run r as they are, starts a job only
\* from PENDING, never makes a job PENDING again, delivers a response only to
\* a job that has had none, and leaves a settled job as it is
JobStepOnce(r) ==
    /\ runs[r].job # << >> =>
           /\ runs'[r].imageBlocks = runs[r].imageBlocks
           /\ Len(runs'[r].job) = Len(runs[r].job)
    /\ \A j \in JobsOf(r) :
           /\ runs'[r].job[j] = "PENDING" => runs[r].job[j] = "PENDING"
           /\ (runs'[r].job[j] = "FETCHING" /\ runs[r].job[j] # "FETCHING")
                  => runs[r].job[j] = "PENDING"
           /\ runs'[r].resp[j] # runs[r].resp[j] => runs[r].resp[j] = "none"
           /\ runs[r].job[j] \in Settled => runs'[r].job[j] = runs[r].job[j]

\* a job of run r whose request has been answered is no longer requesting,
\* and a run that is done has settled every job
JobStateOnce(r) ==
    /\ PlannedOnce(r)
    /\ \A j \in JobsOf(r) : runs[r].resp[j] # "none" => runs[r].job[j] # "FETCHING"
    /\ runs[r].pc = "done" => \A j \in JobsOf(r) : runs[r].job[j] \in Settled

\* C19: within a run each planned job is executed once: the plan does not
\* change, a job is started once, its image is requested at most once, a job
\* that has settled (FAILED included) is never started again, and when the
\* run is done every job has settled
C19_EachJobOnce ==
    [][\A r \in Runs : JobStepOnce(r) /\ JobStateOnce(r)']_vars

\* a run is done in which a request failed and was not made again: the job is
\* FAILED with one failure record, and a job after it was downloaded
C19_Witness ==
    \E r \in Runs :
        /\ runs[r].pc = "done"
        /\ \E j, e \in JobsOf(r) :
            /\ j < e
            /\ runs[r].job[j] = "FAILED" /\ runs[r].resp[j] = "error"
            /\ Cardinality({k \in 1..Len(failedBlocks) :
                                failedBlocks[k].blockId = BlockOf(r, j)}) = 1
            /\ runs[r].job[e] = "DOWNLOADED"

\* the answers to an image request that are a failed fetch
FetchFailures == {"error", "empty"}

\* the reason recorded for a failed fetch
ReasonOf(resp) == IF resp = "empty" THEN "Received empty response" ELSE "request failed"

\* the FailureRecord of job j of run r
RecordOf(r, j) ==
    [blockId |-> runs[r].imageBlocks[j], error |-> ReasonOf(runs[r].resp[j])]

\* the step in which the fetch of job j of run r fails adds one to failed,
\* appends the job's record, and leaves downloaded, the export list and the
\* files as they are
FetchFailStep(r, j) ==
    (runs[r].resp[j] = "none" /\ runs'[r].resp[j] \in FetchFailures) =>
        /\ stats' = [stats EXCEPT !.failed = @ + 1]
        /\ failedBlocks' = Append(failedBlocks, RecordOf(r, j)')
        /\ downloadedBlocks' = downloadedBlocks
        /\ files' = files

\* a job of run r whose fetch failed is FAILED and has its record
FetchFailState(r, j) ==
    runs[r].resp[j] \in FetchFailures =>
        /\ runs[r].job[j] = "FAILED"
        /\ \E k \in 1..Len(failedBlocks) : failedBlocks[k] = RecordOf(r, j)

\* C20: a job whose fetch ends in a request error (network, timeout, non-2xx)
\* or an empty body ends FAILED; the step adds one to failed and appends a
\* record with the block id and the reason, does not add to downloaded, and
\* writes nothing at the target path
C20_FetchFailure ==
    [][\A r \in Runs : \A j \in JobsOf(r) :
          FetchFailStep(r, j) /\ FetchFailState(r, j)']_vars

\* the fetch of a job returned an empty body: the job is FAILED, recorded
\* and counted, and there is no file at its target path
C20_Witness ==
    \E r \in Runs : \E j \in JobsOf(r) :
        /\ runs[r].resp[j] = "empty"
        /\ runs[r].job[j] = "FAILED"
        /\ stats.failed = 1 /\ stats.downloaded = 0
        /\ failedBlocks = << RecordOf(r, j) >>
        /\ files[BlockOf(r, j)] = "absent"

\* C21: when the process has been terminated, the file at each target path
\* is absent or holds the complete body; and no job is skipped as existing
\* over a file that holds less than the complete body
C21_AtomicWrite ==
    /\ status = "killed" => \A b \in DOMAIN files : files[b] \in {"absent", "full"}
    /\ \A r \in Runs : \A j \in JobsOf(r) :
           JobState(r, j) = "SKIPPED" => files[BlockOf(r, j)] = "full"

\* the chunks of run r whose Promise.all has resolved
ChunksJoined(r) ==
    IF runs[r].pc = "chunk" THEN runs[r].i \div CONCURRENT_DOWNLOADS
    ELSE IF runs[r].pc \in {"summary", "done"}
    THEN PagesNeeded(Len(runs[r].imageBlocks), CONCURRENT_DOWNLOADS)
    ELSE 0

\* C22: a run has reported progress once for each chunk that has been joined;
\* report k shows min(k * CONCURRENT_DOWNLOADS, n) jobs processed, strictly
\* more than the report before it and n in the last report of a run over n
\* jobs, and shows downloaded, skipped and failed counts that are not below
\* those of the report before it
C22_ProgressMonotonic ==
    \A r \in Runs :
        LET p == runs[r].progress
            n == Len(runs[r].imageBlocks)
        IN  /\ Len(p) = ChunksJoined(r)
            /\ \A k \in 1..Len(p) :
                   /\ p[k].processed = Min(k * CONCURRENT_DOWNLOADS, n)
                   /\ k > 1 =>
                        /\ p[k].processed > p[k - 1].processed
                        /\ p[k].downloaded >= p[k - 1].downloaded
                        /\ p[k].skipped >= p[k - 1].skipped
                        /\ p[k].failed >= p[k - 1].failed
            /\ (runs[r].pc \in {"summary", "done"} /\ n > 0) =>
                   p[Len(p)].processed = n

\* a run over more jobs than one chunk has made two reports, the first at
\* the concurrency limit and the second at n, with more downloaded
C22_Witness ==
    \E r \in Runs :
        /\ runs[r].pc = "done"
        /\ Len(runs[r].progress) = 2
        /\ runs[r].progress[1].processed = CONCURRENT_DOWNLOADS
        /\ runs[r].progress[2].processed = Len(runs[r].imageBlocks)
        /\ runs[r].progress[2].processed > CONCURRENT_DOWNLOADS
        /\ runs[r].progress[2].downloaded > runs[r].progress[1].downloaded
        /\ runs[r].progress[1].failed = 1

\* download() has reached its summary, or the exit of its catch block
Terminated ==
    /\ started >= 1
    /\ runs[1].summary # << >> \/ status = "exit1"

\* C23: when every request and timer eventually settles, download()
\* eventually reaches its summary or its error exit, whatever the item count
\* and whichever pages and jobs fail
C23_RunTerminates == <>Terminated

\* a download over three pages has reached its summary although a page was
\* lost and both jobs of the blocks that remained failed, one on its request
\* and one on its write
C23_Witness ==
    /\ runs[1].summary # << >>
    /\ Len(remote.contents) = 3
    /\ runs[1].lostPages # {}
    /\ \E j, e \in JobsOf(1) :
           /\ JobState(1, j) = "FAILED" /\ runs[1].resp[j] = "error"
           /\ JobState(1, e) = "FAILED" /\ runs[1].resp[e] = "data"

\* C24: in every state the export list has as many entries as the downloaded
\* counter shows, and there are as many FailureRecords as the failed counter
\* shows
C24_ListsMatchCounters ==
    /\ Len(downloadedBlocks) = stats.downloaded
    /\ Len(failedBlocks) = stats.failed

\* in the second watch cycle one job is between its count and its return
\* while an earlier cycle has left a download and a failure on the lists
C24_Witness ==
    /\ started >= 2
    /\ stats.downloaded >= 2 /\ stats.failed = 1
    /\ \E j \in JobsOf(2) : JobState(2, j) = "DELAY"
    /\ \E j \in JobsOf(1) : JobState(1, j) = "FAILED"

\* downloaded + skipped + failed of a record of counters
Handled(s) == s.downloaded + s.skipped + s.failed

\* the image-bearing blocks of the listing that run r fetched
ImagesFetched(r) == {b \in Blocks : b \in remote.images /\
                        \E k \in 1..Len(LoadedBlocks(r)) : LoadedBlocks(r)[k] = b}

\* C26: in the first run of a new instance every progress report shows
\* downloaded + skipped + failed equal to the jobs processed so far, and the
\* summary shows it equal to the number of image-bearing blocks of the
\* listing that was fetched
C26_CountersAddUp ==
    /\ \A k \in 1..Len(runs[1].progress) :
           Handled(runs[1].progress[k]) = runs[1].progress[k].processed
    /\ runs[1].summary # << >> =>
           Handled(runs[1].summary[1]) = Cardinality(ImagesFetched(1))

\* a run of two chunks has printed its summary with jobs downloaded, skipped
\* and failed
C26_Witness ==
    /\ runs[1].summary # << >>
    /\ Len(runs[1].progress) = 2
    /\ runs[1].summary[1].downloaded > 0
    /\ runs[1].summary[1].skipped > 0
    /\ runs[1].summary[1].failed > 0

\* blocks with ids of one and two digits, each title and image type
Catalog ==
    [id : {1, 2, 11, 12, 21, 112},
     title : {TitleChoices[k] : k \in 1..Len(TitleChoices)},
     content_type : {"image/jpeg", "image/png", "application/x-unknown"}]

\* blocks of the catalog with distinct ids have distinct file names
CatalogDistinct ==
    \A x, y \in Catalog : x.id # y.id => getFilename(x) # getFilename(y)

\* C25: blocks with distinct ids have distinct target paths; no run plans a
\* block twice, and any two jobs that are in flight at the same time for
\* different blocks have different target paths
C25_DistinctPaths ==
    /\ CatalogDistinct
    /\ \A b, c \in Blocks : b # c => TargetPath(b) # TargetPath(c)
    /\ \A r \in Runs : PlannedOnce(r)
    /\ \A r, q \in Runs : \A j \in Unsettled(r) : \A e \in Unsettled(q) :
           BlockOf(r, j) # BlockOf(q, e) =>
               TargetPath(BlockOf(r, j)) # TargetPath(BlockOf(q, e))

\* two jobs are in flight at once for blocks whose titles parameterize alike
\* and whose images have the same type
C25_Witness ==
    \E r \in Runs : \E j, e \in Unsettled(r) :
        /\ j # e
        /\ remote.titles[BlockOf(r, j)] # remote.titles[BlockOf(r, e)]
        /\ parameterize(remote.titles[BlockOf(r, j)])
               = parameterize(remote.titles[BlockOf(r, e)])
        /\ remote.types[BlockOf(r, j)] = remote.types[BlockOf(r, e)]
====
